---- MODULE Spec2Model ----
(***************************************************************************)
(* Model of the ride-sharing dispatch service of src/main.cpp:             *)
(* DispatchService (driver pool, ongoing-ride registry, archive, matching  *)
(* strategy, surge configuration), Ride (status, driver, fare, observers), *)
(* the matching strategies and the fare decorator chain.                   *)
(*                                                                         *)
(* Numbers: coordinates are integers of a grid on which every Euclidean    *)
(* distance is an integer, so sqrt is exact; money is in whole rupees;     *)
(* the surge multiplier is held in hundredths (150 is 1.5); ratings are    *)
(* held in tenths (48 is 4.8).                                             *)
(***************************************************************************)
EXTENDS Integers, Sequences, FiniteSets, TLC

\* ---------------------------------------------------------------- enums
BIKE == "BIKE"
SEDAN == "SEDAN"
SUV == "SUV"
AUTO == "AUTO"
VehicleType == {BIKE, SEDAN, SUV, AUTO}

REQUESTED == "REQUESTED"
DRIVER_ASSIGNED == "DRIVER_ASSIGNED"
EN_ROUTE_TO_PICKUP == "EN_ROUTE_TO_PICKUP"
IN_PROGRESS == "IN_PROGRESS"
COMPLETED == "COMPLETED"
CANCELLED == "CANCELLED"
RideStatus ==
    {REQUESTED, DRIVER_ASSIGNED, EN_ROUTE_TO_PICKUP, IN_PROGRESS, COMPLETED, CANCELLED}

AVAILABLE == "AVAILABLE"
ON_TRIP == "ON_TRIP"
OFFLINE == "OFFLINE"
DriverStatus == {AVAILABLE, ON_TRIP, OFFLINE}

\* nullptr, as a Driver*
nullptr == "nullptr"

\* ---------------------------------------------------------------- bounds
\* rides created (RideFactory::rideCounter is capped here)
MaxRides == 1
\* length of availableDrivers up to which registerDriver is still called
MaxAvail == 2
\* length of the candidate lists handed to a matching strategy
MaxCandidates == 3

\* ---------------------------------------------------------------- fixture
\* The two sedan drivers main() constructs first (Alice, Bob); "d3" is the SUV
\* driver, held out of the universe of the dispatch model.
Drivers == {"d1", "d2"}

vehicleType(d) == IF d = "d3" THEN SUV ELSE SEDAN

farePerKm(d) == IF d = "d3" THEN 20 ELSE 15

\* rating in tenths: Alice 4.8, Bob 4.9, Charlie 4.7; "d5" is rated as Alice,
\* "d6" is a driver whose rating setRating has set to -1.0
rating(d) ==
    CASE d = "d1" -> 48 [] d = "d2" -> 49 [] d = "d5" -> 48 [] d = "d6" -> -10
      [] OTHER -> 47

\* Grid points; the pairwise distances are 6, 8 and 10.
Locations == {<<0, 0>>, <<6, 0>>, <<6, 8>>}

\* "d5" stands where Alice does, "d6" where Bob does
driverLocation(d) ==
    CASE d \in {"d1", "d5"} -> <<0, 0>> [] d \in {"d2", "d6"} -> <<6, 8>>
      [] OTHER -> <<6, 0>>

\* The driver objects a candidate list handed to a strategy is made of
MatchDrivers == {"d1", "d2", "d3", "d5", "d6"}

\* The statuses of the drivers of a candidate list
MatchStatuses == {AVAILABLE, ON_TRIP}

\* The riders
Riders == {"r1"}

\* Inputs of Rider::setDiscountAmount
Discounts == {0, 50}

\* Inputs of requestRide
Pickups == {<<6, 0>>}

Drops == {<<6, 8>>}

RequestTypes == {SEDAN, SUV}

\* Inputs of activateSurge, in hundredths
Multipliers == {150}

\* The answers of the payment collaborator (PaymentProcessor::processPayment)
PaymentResults == BOOLEAN

\* The observers requestRide attaches
RiderNotificationService == "RiderNotificationService"
DriverNotificationService == "DriverNotificationService"

\* The matching strategies
NearestDriverStrategy == "NearestDriverStrategy"
BestRatedDriverStrategy == "BestRatedDriverStrategy"
Strategies == {NearestDriverStrategy, BestRatedDriverStrategy}

BASE_FARE == 50

\* The callers of the concurrent requestRide
Threads == {"t1", "t2"}

\* ---------------------------------------------------------------- state
VARIABLES
    drvStatus,          \* Driver::status of every driver object
    discountAmount,     \* Rider::discountAmount of every rider object
    registered,         \* history: the drivers registerDriver was called with
    availableDrivers,   \* DispatchService::availableDrivers (a vector)
    rides,              \* the Ride objects created so far, by identifier
    rideCounter,        \* RideFactory::rideCounter
    ongoingRides,       \* DispatchService::ongoingRides (its keys)
    completedRides,     \* DispatchService::completedRides (a vector)
    matchingStrategy,   \* DispatchService::matchingStrategy
    surgeActive,        \* DispatchService::surgeActive
    surgeMultiplier,    \* DispatchService::surgeMultiplier, in hundredths
    payments,           \* the calls made to the payment collaborator
    notified,           \* the observer calls made by the last operation
    cout,               \* what the last operation wrote to cout (announcements aside)
    pc,                 \* concurrent requestRide: the position of each caller
    local               \* concurrent requestRide: each caller's ride and chosenDriver

vars == <<drvStatus, discountAmount, registered, availableDrivers, rides, rideCounter, ongoingRides,
          completedRides, matchingStrategy, surgeActive, surgeMultiplier, payments,
          notified, cout, pc, local>>

\* ---------------------------------------------------------------- helpers
\* std::sqrt on the perfect squares of the grid
Sqrt(n) == CHOOSE k \in 0..n : k * k = n

\* Location::distanceTo
distanceTo(a, b) ==
    LET dx == a[1] - b[1]
        dy == a[2] - b[2]
    IN  Sqrt(dx * dx + dy * dy)

\* std::remove + erase: every occurrence of x leaves, the order is kept
RECURSIVE Erase(_, _)
Erase(s, x) ==
    IF s = <<>> THEN <<>>
    ELSE IF Head(s) = x THEN Erase(Tail(s), x)
         ELSE <<Head(s)>> \o Erase(Tail(s), x)

Range(s) == {s[i] : i \in 1..Len(s)}

Count(s, x) == Cardinality({i \in 1..Len(s) : s[i] = x})

\* ---------------------------------------------------------------- matching
\* The loop of NearestDriverStrategy::chooseDriver over availableDrivers[i..]:
\* nearest = nullptr stands for minDistance = infinity.
\* Mutant: dist <= minDistance, the last-listed driver wins a tie
RECURSIVE NearestLoopLastOnTies(_, _, _, _, _, _, _)
NearestLoopLastOnTies(type, pickup, candidates, status, i, nearest, minDistance) ==
    IF i > Len(candidates) THEN nearest
    ELSE LET d == candidates[i]
             dist == distanceTo(driverLocation(d), pickup)
         IN  IF /\ status[d] = AVAILABLE
                /\ vehicleType(d) = type
                /\ (nearest = nullptr \/ dist <= minDistance)
             THEN NearestLoopLastOnTies(type, pickup, candidates, status, i + 1, d, dist)
             ELSE NearestLoopLastOnTies(type, pickup, candidates, status, i + 1,
                                        nearest, minDistance)

RECURSIVE NearestLoop(_, _, _, _, _, _, _)
NearestLoop(type, pickup, candidates, status, i, nearest, minDistance) ==
    IF i > Len(candidates) THEN nearest
    ELSE LET d == candidates[i]
             dist == distanceTo(driverLocation(d), pickup)
         IN  IF /\ status[d] = AVAILABLE
                /\ vehicleType(d) = type
                /\ (nearest = nullptr \/ dist < minDistance)
             THEN NearestLoop(type, pickup, candidates, status, i + 1, d, dist)
             ELSE NearestLoop(type, pickup, candidates, status, i + 1, nearest, minDistance)

NearestChooseDriver(type, pickup, candidates, status) ==
    NearestLoop(type, pickup, candidates, status, 1, nullptr, 0)

\* The loop of BestRatedDriverStrategy::chooseDriver; bestRating starts at -1.0.
RECURSIVE BestRatedLoop(_, _, _, _, _, _)
BestRatedLoop(type, candidates, status, i, best, bestRating) ==
    IF i > Len(candidates) THEN best
    ELSE LET d == candidates[i]
         IN  IF /\ status[d] = AVAILABLE
                /\ vehicleType(d) = type
                /\ rating(d) > bestRating
             THEN BestRatedLoop(type, candidates, status, i + 1, d, rating(d))
             ELSE BestRatedLoop(type, candidates, status, i + 1, best, bestRating)

BestRatedChooseDriver(type, candidates, status) ==
    BestRatedLoop(type, candidates, status, 1, nullptr, -10)

\* Mutant: the strategy set at run time is ignored, the nearest driver is chosen
chooseDriverIgnoresStrategy(strategy, type, pickup, candidates, status) ==
    NearestChooseDriver(type, pickup, candidates, status)

\* Mutant: the category filter is dropped, the first available driver is chosen
chooseDriverAnyCategory(strategy, type, pickup, candidates, status) ==
    LET av == SelectSeq(candidates, LAMBDA d : status[d] = AVAILABLE)
    IN  IF av = <<>> THEN nullptr ELSE av[1]

\* matchingStrategy->chooseDriver(request, availableDrivers)
chooseDriver(strategy, type, pickup, candidates, status) ==
    IF strategy = NearestDriverStrategy
    THEN NearestChooseDriver(type, pickup, candidates, status)
    ELSE BestRatedChooseDriver(type, candidates, status)

\* ---------------------------------------------------------------- fares
\* BaseFareCalculator::calculate
BaseFareCalculate(ride) == BASE_FARE + (ride.distanceKm * farePerKm(ride.driver))

\* SurgePricingDecorator::calculate, the multiplier in hundredths
SurgeCalculate(baseFare, mult) == (baseFare * mult) \div 100

\* Mutant: the discount is subtracted without the clamp at zero
DiscountCalculateNoClamp(fareBeforeDiscount, discount) == fareBeforeDiscount - discount

\* DiscountDecorator::calculate
DiscountCalculate(fareBeforeDiscount, discount) ==
    LET finalFare == fareBeforeDiscount - discount
    IN  IF finalFare < 0 THEN 0 ELSE finalFare

\* Rider::hasDiscount, of the rider's discountAmount
hasDiscount(amount) == amount > 0

\* The chain completeRide builds and evaluates; "discount" is the
\* discountAmount of the ride's rider
FinalFare(ride, surge, mult, discount) ==
    LET base == BaseFareCalculate(ride)
        surged == IF surge THEN SurgeCalculate(base, mult) ELSE base
    IN  IF hasDiscount(discount)
        THEN DiscountCalculate(surged, discount)
        ELSE surged

\* ---------------------------------------------------------------- Ride
\* Ride::Ride, called by RideFactory::createRide
NewRide(rider, pickup, drop, type) ==
    [rider |-> rider, driver |-> nullptr, pickupLocation |-> pickup,
     dropLocation |-> drop, requestedType |-> type, status |-> REQUESTED,
     distanceKm |-> distanceTo(pickup, drop), fare |-> 0, paid |-> FALSE,
     observers |-> <<>>]

\* Ride::attachObserver
AttachObserver(ride, obs) == [ride EXCEPT !.observers = Append(@, obs)]

\* Ride::updateStatus, its effect on the ride
UpdateStatus(ride, newStatus) == [ride EXCEPT !.status = newStatus]

\* Mutant: the observers are called last-attached first and read REQUESTED
\* from the ride, not the new status
NotifyObserversBeforeCommit(id, ride, newStatus) ==
    [i \in 1..Len(ride.observers) |->
        [obs |-> ride.observers[Len(ride.observers) + 1 - i], ride |-> id,
         newStatus |-> newStatus, seen |-> REQUESTED,
         printed |-> (ride.observers[Len(ride.observers) + 1 - i] = RiderNotificationService
                        \/ ride.driver # nullptr)]]

\* Ride::notifyObservers, called by updateStatus after the assignment: one call
\* per attached observer, in order; "seen" is the status the observer reads
\* from the ride, "printed" whether it writes its announcement.
NotifyObservers(id, ride, newStatus) ==
    [i \in 1..Len(ride.observers) |->
        [obs |-> ride.observers[i], ride |-> id, newStatus |-> newStatus,
         seen |-> ride.status,
         printed |-> (ride.observers[i] = RiderNotificationService
                        \/ ride.driver # nullptr)]]

\* Mutant: the status is updated, the driver is not stored
AssignDriverForgets(ride, d) == UpdateStatus(ride, DRIVER_ASSIGNED)

\* Ride::assignDriver, its effect on the ride
AssignDriver(ride, d) == UpdateStatus([ride EXCEPT !.driver = d], DRIVER_ASSIGNED)

\* ---------------------------------------------------------------- operations
RideIds == 1..rideCounter

\* The identifiers a caller may pass: those of the rides created and those not
\* yet created
CallIds == 1..MaxRides

\* A line written to cout: what it says, and the ride or driver it names
Line(msg, id, d) == [msg |-> msg, ride |-> id, driver |-> d]

\* "Ride <id> not found or already completed."
NotFound(id) == Line("not found or already completed", id, nullptr)

NoLocal == [ride |-> 0, chosen |-> nullptr]

\* Driver::Driver sets status(AVAILABLE), Rider has discountAmount = 0.0;
\* DispatchService::DispatchService starts with NearestDriverStrategy, no surge and a multiplier of 1.0.
Init ==
    /\ drvStatus = [d \in Drivers |-> AVAILABLE]
    /\ discountAmount = [r \in Riders |-> 0]
    /\ registered = {}
    /\ availableDrivers = <<>>
    /\ rides = <<>>
    /\ rideCounter = 0
    /\ ongoingRides = {}
    /\ completedRides = <<>>
    /\ matchingStrategy = NearestDriverStrategy
    /\ surgeActive = FALSE
    /\ surgeMultiplier = 100
    /\ payments = <<>>
    /\ notified = <<>>
    /\ cout = <<>>
    /\ pc = [t \in Threads |-> "idle"]
    /\ local = [t \in Threads |-> NoLocal]

\* Rider::setDiscountAmount
SetDiscountAmount(rider, amt) ==
    /\ discountAmount' = [discountAmount EXCEPT ![rider] = amt]
    /\ notified' = <<>>
    /\ cout' = <<>>
    /\ UNCHANGED <<drvStatus, registered, availableDrivers, rides, rideCounter,
                   ongoingRides, completedRides, matchingStrategy, surgeActive,
                   surgeMultiplier, payments, pc, local>>

\* DispatchService::setMatchingStrategy
SetMatchingStrategy(strategy) ==
    /\ matchingStrategy' = strategy
    /\ notified' = <<>>
    /\ cout' = <<>>
    /\ UNCHANGED <<drvStatus, discountAmount, registered, availableDrivers, rides, rideCounter,
                   ongoingRides, completedRides, surgeActive, surgeMultiplier,
                   payments, pc, local>>

\* Mutant: activating the surge re-prices the rides already completed
ActivateSurgeReprices(multiplier) ==
    /\ surgeActive' = TRUE
    /\ surgeMultiplier' = multiplier
    /\ rides' = [r \in DOMAIN rides |->
                    IF rides[r].status = COMPLETED
                    THEN [rides[r] EXCEPT !.fare = (@ * multiplier) \div 100]
                    ELSE rides[r]]
    /\ notified' = <<>>
    /\ cout' = <<>>
    /\ UNCHANGED <<drvStatus, discountAmount, registered, availableDrivers, rideCounter,
                   ongoingRides, completedRides, matchingStrategy, payments, pc, local>>

\* DispatchService::activateSurge
ActivateSurge(multiplier) ==
    /\ surgeActive' = TRUE
    /\ surgeMultiplier' = multiplier
    /\ notified' = <<>>
    /\ cout' = <<>>
    /\ UNCHANGED <<drvStatus, discountAmount, registered, availableDrivers, rides, rideCounter,
                   ongoingRides, completedRides, matchingStrategy, payments, pc, local>>

\* DispatchService::deactivateSurge
DeactivateSurge ==
    /\ surgeActive' = FALSE
    /\ surgeMultiplier' = 100
    /\ notified' = <<>>
    /\ cout' = <<>>
    /\ UNCHANGED <<drvStatus, discountAmount, registered, availableDrivers, rides, rideCounter,
                   ongoingRides, completedRides, matchingStrategy, payments, pc, local>>

\* The pool after registerDriver(driver): no check of any kind, one push_back
RegisterPool(pool, driver) == Append(pool, driver)

\* DispatchService::registerDriver
RegisterDriver(driver) ==
    /\ Len(availableDrivers) < MaxAvail
    /\ drvStatus' = [drvStatus EXCEPT ![driver] = AVAILABLE]
    /\ availableDrivers' = RegisterPool(availableDrivers, driver)
    /\ registered' = registered \cup {driver}
    /\ notified' = <<>>
    /\ cout' = <<Line("Driver registered", 0, driver)>>
    /\ UNCHANGED <<discountAmount, rides, rideCounter, ongoingRides, completedRides,
                   matchingStrategy, surgeActive, surgeMultiplier, payments, pc, local>>

\* DispatchService::deregisterDriver
DeregisterDriver(driver) ==
    /\ drvStatus' = [drvStatus EXCEPT ![driver] = OFFLINE]
    /\ availableDrivers' = Erase(availableDrivers, driver)
    /\ notified' = <<>>
    /\ cout' = <<Line("Driver deregistered", 0, driver)>>
    /\ UNCHANGED <<discountAmount, registered, rides, rideCounter, ongoingRides, completedRides,
                   matchingStrategy, surgeActive, surgeMultiplier, payments, pc, local>>

\* Mutant: the matched driver is not erased from the pool
WithdrawPoolKeeps(pool, chosenDriver) == pool

\* The pool after requestRide has matched chosenDriver: erase(remove(...))
WithdrawPool(pool, chosenDriver) == Erase(pool, chosenDriver)

\* The ride requestRide returns when a driver was chosen: two observers
\* attached, then assignDriver
MatchedRide(ride, chosenDriver) ==
    AssignDriver(
        AttachObserver(AttachObserver(ride, RiderNotificationService),
                       DriverNotificationService),
        chosenDriver)

\* DispatchService::requestRide, called while fewer than "limit" rides exist
RequestRideWithin(limit, rider, pickup, drop, type) ==
    /\ rideCounter < limit
    /\ LET id == rideCounter + 1
           ride == NewRide(rider, pickup, drop, type)
           chosenDriver ==
               chooseDriver(matchingStrategy, type, pickup, availableDrivers, drvStatus)
       IN  /\ rideCounter' = id
           /\ IF chosenDriver = nullptr
              THEN LET cancelled == UpdateStatus(ride, CANCELLED)
                   IN  /\ rides' = Append(rides, cancelled)
                       /\ notified' = NotifyObservers(id, cancelled, CANCELLED)
                       /\ cout' = <<Line("requests a ride", 0, nullptr),
                                    Line("No available drivers. Cancelling ride", id, nullptr)>>
                       /\ UNCHANGED <<drvStatus, availableDrivers, ongoingRides>>
              ELSE LET matched == MatchedRide(ride, chosenDriver)
                   IN  /\ rides' = Append(rides, matched)
                       /\ notified' = NotifyObservers(id, matched, DRIVER_ASSIGNED)
                       /\ cout' = <<Line("requests a ride", 0, nullptr)>>
                       /\ drvStatus' = [drvStatus EXCEPT ![chosenDriver] = ON_TRIP]
                       /\ availableDrivers' = WithdrawPool(availableDrivers, chosenDriver)
                       /\ ongoingRides' = ongoingRides \cup {id}
    /\ UNCHANGED <<discountAmount, registered, completedRides, matchingStrategy, surgeActive,
                   surgeMultiplier, payments, pc, local>>

RequestRide(rider, pickup, drop, type) ==
    RequestRideWithin(MaxRides, rider, pickup, drop, type)

\* The status Ride::updateStatus leaves on a ride whose status is "old":
\* the assignment is unconditional
NextStatus(old, newStatus) == newStatus

\* Mutant: no lookup in ongoingRides, any ride created is updated
UpdateRideStatusNoLookup(rideId, newStatus) ==
    /\ IF rideId \notin RideIds
       THEN /\ cout' = <<NotFound(rideId)>>
            /\ notified' = <<>>
            /\ UNCHANGED rides
       ELSE LET ride == UpdateStatus(rides[rideId], newStatus)
            IN  /\ rides' = [rides EXCEPT ![rideId] = ride]
                /\ notified' = NotifyObservers(rideId, ride, newStatus)
                /\ cout' = <<>>
    /\ UNCHANGED <<drvStatus, discountAmount, registered, availableDrivers, rideCounter,
                   ongoingRides, completedRides, matchingStrategy, surgeActive,
                   surgeMultiplier, payments, pc, local>>

\* Mutant: a ride updated to CANCELLED is erased from ongoingRides
UpdateRideStatusDiscards(rideId, newStatus) ==
    /\ IF rideId \notin ongoingRides
       THEN /\ cout' = <<NotFound(rideId)>>
            /\ notified' = <<>>
            /\ UNCHANGED <<rides, ongoingRides>>
       ELSE LET ride == UpdateStatus(rides[rideId], newStatus)
            IN  /\ rides' = [rides EXCEPT ![rideId] = ride]
                /\ notified' = NotifyObservers(rideId, ride, newStatus)
                /\ cout' = <<>>
                /\ ongoingRides' = IF newStatus = CANCELLED
                                   THEN ongoingRides \ {rideId}
                                   ELSE ongoingRides
    /\ UNCHANGED <<drvStatus, discountAmount, registered, availableDrivers, rideCounter,
                   completedRides, matchingStrategy, surgeActive, surgeMultiplier,
                   payments, pc, local>>

\* DispatchService::updateRideStatus
UpdateRideStatus(rideId, newStatus) ==
    /\ IF rideId \notin ongoingRides
       THEN /\ cout' = <<NotFound(rideId)>>
            /\ notified' = <<>>
            /\ UNCHANGED rides
       ELSE LET ride == UpdateStatus(rides[rideId], NextStatus(rides[rideId].status, newStatus))
            IN  /\ rides' = [rides EXCEPT ![rideId] = ride]
                /\ notified' = NotifyObservers(rideId, ride, newStatus)
                /\ cout' = <<>>
    /\ UNCHANGED <<drvStatus, discountAmount, registered, availableDrivers, rideCounter, ongoingRides,
                   completedRides, matchingStrategy, surgeActive, surgeMultiplier,
                   payments, pc, local>>

\* The pool after completeRide has freed the ride's driver: one push_back
ReleasePool(pool, driver) == Append(pool, driver)

\* Mutant: the ride is marked paid whatever the collaborator answers
CompletedRideAlwaysPaid(ride, finalFare, paid) ==
    [UpdateStatus(ride, COMPLETED) EXCEPT !.fare = finalFare, !.paid = TRUE]

\* Mutant: the fare and the paid flag are set, the status is left as it was
CompletedRideKeepsStatus(ride, finalFare, paid) ==
    [ride EXCEPT !.fare = finalFare, !.paid = paid]

\* The ride completeRide leaves: COMPLETED, the fare set, paid set on success
CompletedRide(ride, finalFare, paid) ==
    LET done == [UpdateStatus(ride, NextStatus(ride.status, COMPLETED))
                    EXCEPT !.fare = finalFare]
    IN  IF paid THEN [done EXCEPT !.paid = TRUE] ELSE done

\* Mutant: the completed ride is archived but not erased from ongoingRides
CompleteRideKeepsOngoing(rideId, paid) ==
    IF rideId \notin ongoingRides
    THEN /\ cout' = <<NotFound(rideId)>>
         /\ notified' = <<>>
         /\ UNCHANGED <<drvStatus, discountAmount, registered, availableDrivers, rides, rideCounter,
                        ongoingRides, completedRides, matchingStrategy, surgeActive,
                        surgeMultiplier, payments, pc, local>>
    ELSE LET ride == rides[rideId]
             finalFare == FinalFare(ride, surgeActive, surgeMultiplier,
                                   discountAmount[ride.rider])
             done == CompletedRide(ride, finalFare, paid)
             driver == ride.driver
         IN  /\ rides' = [rides EXCEPT ![rideId] = done]
             /\ notified' = NotifyObservers(rideId, UpdateStatus(ride, COMPLETED), COMPLETED)
             /\ payments' = Append(payments,
                                   [ride |-> rideId, amount |-> finalFare, ok |-> paid])
             /\ drvStatus' = [drvStatus EXCEPT ![driver] = AVAILABLE]
             /\ availableDrivers' = ReleasePool(availableDrivers, driver)
             /\ completedRides' = Append(completedRides, rideId)
             /\ cout' = <<Line("Processing payment", rideId, nullptr),
                          Line(IF paid THEN "Payment successful" ELSE "Payment failed",
                               rideId, nullptr),
                          Line("Driver is now AVAILABLE", 0, driver),
                          Line("Ride completed and archived", rideId, nullptr)>>
             /\ UNCHANGED <<discountAmount, registered, rideCounter, ongoingRides,
                            matchingStrategy, surgeActive, surgeMultiplier, pc, local>>

\* DispatchService::completeRide; "paid" is the collaborator's answer
CompleteRide(rideId, paid) ==
    IF rideId \notin ongoingRides
    THEN /\ cout' = <<NotFound(rideId)>>
         /\ notified' = <<>>
         /\ UNCHANGED <<drvStatus, discountAmount, registered, availableDrivers, rides, rideCounter,
                        ongoingRides, completedRides, matchingStrategy, surgeActive,
                        surgeMultiplier, payments, pc, local>>
    ELSE LET ride == rides[rideId]
             finalFare == FinalFare(ride, surgeActive, surgeMultiplier,
                                   discountAmount[ride.rider])
             done == CompletedRide(ride, finalFare, paid)
             driver == ride.driver
         IN  /\ rides' = [rides EXCEPT ![rideId] = done]
             /\ notified' = NotifyObservers(rideId, UpdateStatus(ride, COMPLETED), COMPLETED)
             /\ payments' = Append(payments,
                                   [ride |-> rideId, amount |-> finalFare, ok |-> paid])
             /\ drvStatus' = [drvStatus EXCEPT ![driver] = AVAILABLE]
             /\ availableDrivers' = ReleasePool(availableDrivers, driver)
             /\ ongoingRides' = ongoingRides \ {rideId}
             /\ completedRides' = Append(completedRides, rideId)
             /\ cout' = <<Line("Processing payment", rideId, nullptr),
                          Line(IF paid THEN "Payment successful" ELSE "Payment failed",
                               rideId, nullptr),
                          Line("Driver is now AVAILABLE", 0, driver),
                          Line("Ride completed and archived", rideId, nullptr)>>
             /\ UNCHANGED <<discountAmount, registered, rideCounter, matchingStrategy, surgeActive,
                            surgeMultiplier, pc, local>>

\* updateRideStatus does not read newStatus when the ride is not found: one
\* value then stands for all of them
StatusArgs(rideId) == IF rideId \in ongoingRides THEN RideStatus ELSE {CANCELLED}

\* completeRide does not call the payment collaborator when the ride is not found
PaymentAnswers(rideId) == IF rideId \in ongoingRides THEN PaymentResults ELSE {TRUE}

\* The operations of the dispatch service on drivers and rides, and the choice
\* of the matching strategy
NextDispatch ==
    \/ \E strategy \in Strategies : SetMatchingStrategy(strategy)
    \/ \E driver \in Drivers : RegisterDriver(driver)
    \/ \E driver \in Drivers : DeregisterDriver(driver)
    \/ \E rider \in Riders, pickup \in Pickups, drop \in Drops, type \in RequestTypes :
            RequestRide(rider, pickup, drop, type)
    \/ \E rideId \in CallIds : \E newStatus \in StatusArgs(rideId) :
            UpdateRideStatus(rideId, newStatus)
    \/ \E rideId \in CallIds : \E paid \in PaymentAnswers(rideId) :
            CompleteRide(rideId, paid)

\* The operations that set the prices: the surge and the riders' discounts
NextPricing ==
    \/ \E rider \in Riders, amt \in Discounts : SetDiscountAmount(rider, amt)
    \/ \E multiplier \in Multipliers : ActivateSurge(multiplier)
    \/ DeactivateSurge

Next == NextDispatch \/ NextPricing

\* Every operation
Spec == Init /\ [][Next]_vars

\* The dispatch operations alone, the prices left as constructed
SpecDispatch == Init /\ [][NextDispatch]_vars

\* The dispatch operations on drivers and rides with room for one ride more
\* than MaxRides
NextTwoRides ==
    \/ \E driver \in Drivers : RegisterDriver(driver)
    \/ \E driver \in Drivers : DeregisterDriver(driver)
    \/ \E rider \in Riders, pickup \in Pickups, drop \in Drops, type \in RequestTypes :
            RequestRideWithin(MaxRides + 1, rider, pickup, drop, type)
    \/ \E rideId \in 1..(MaxRides + 1) : \E newStatus \in StatusArgs(rideId) :
            UpdateRideStatus(rideId, newStatus)
    \/ \E rideId \in 1..(MaxRides + 1) : \E paid \in PaymentAnswers(rideId) :
            CompleteRide(rideId, paid)

SpecTwoRides == Init /\ [][NextTwoRides]_vars

\* ---------------------------------------------------------------- pricing
\* Inputs of Rider::setDiscountAmount that reach the clamp of
\* DiscountDecorator::calculate: 300 exceeds the fare of a short ride
FareDiscounts == {0, 50, 300}

\* Pickup of the priced rides: the drops at distance 0, 6 and 10 from it give
\* the base fares 50, 140 and 200
FarePickups == {<<0, 0>>}

\* DummyPaymentProcessor::processPayment returns true
DummyPaymentResult == TRUE

\* registerDriver, requestRide of a sedan from the pickup to any grid point,
\* completeRide paid through the DummyPaymentProcessor, and the operations
\* that set the prices
NextFare ==
    \/ \E driver \in Drivers : RegisterDriver(driver)
    \/ \E rider \in Riders, pickup \in FarePickups, drop \in Locations :
            RequestRide(rider, pickup, drop, SEDAN)
    \/ \E rideId \in CallIds : CompleteRide(rideId, DummyPaymentResult)
    \/ \E rider \in Riders, amt \in FareDiscounts : SetDiscountAmount(rider, amt)
    \/ \E multiplier \in Multipliers : ActivateSurge(multiplier)
    \/ DeactivateSurge

\* Rides of every length completed under every price setting
SpecFare == Init /\ [][NextFare]_vars

\* ---------------------------------------------------------------- reconfiguration
\* setMatchingStrategy, activateSurge and deactivateSurge between the calls of
\* registerDriver, requestRide and completeRide (paid through the
\* DummyPaymentProcessor)
NextConfig ==
    \/ \E strategy \in Strategies : SetMatchingStrategy(strategy)
    \/ \E multiplier \in Multipliers : ActivateSurge(multiplier)
    \/ DeactivateSurge
    \/ \E driver \in Drivers : RegisterDriver(driver)
    \/ \E rider \in Riders, pickup \in Pickups, drop \in Drops, type \in RequestTypes :
            RequestRide(rider, pickup, drop, type)
    \/ \E rideId \in CallIds : CompleteRide(rideId, DummyPaymentResult)

SpecConfig == Init /\ [][NextConfig]_vars

\* ---------------------------------------------------------------- concurrency
\* requestRide run by two callers at once, without any lock (the code has
\* none): each caller runs the steps of requestRide in order, the steps of the
\* two callers interleave. The drivers are registered before the requests start.

\* registerDriver, before any caller has entered requestRide
SetupRegisterDriver(driver) ==
    /\ \A t \in Threads : pc[t] = "idle"
    /\ RegisterDriver(driver)

\* requestRide, lines 373-375: the request and the ride are created
StepCreate(t, rider, pickup, drop, type) ==
    /\ pc[t] = "idle"
    /\ rideCounter' = rideCounter + 1
    /\ rides' = Append(rides, NewRide(rider, pickup, drop, type))
    /\ local' = [local EXCEPT ![t] = [ride |-> rideCounter + 1, chosen |-> nullptr]]
    /\ pc' = [pc EXCEPT ![t] = "choose"]
    /\ cout' = <<Line("requests a ride", 0, nullptr)>>
    /\ notified' = <<>>
    /\ UNCHANGED <<drvStatus, discountAmount, registered, availableDrivers, ongoingRides,
                   completedRides, matchingStrategy, surgeActive, surgeMultiplier,
                   payments>>

\* requestRide, lines 378-379: chooseDriver reads availableDrivers and the
\* drivers' statuses
StepChoose(t) ==
    /\ pc[t] = "choose"
    /\ LET ride == rides[local[t].ride]
           chosenDriver == chooseDriver(matchingStrategy, ride.requestedType,
                                        ride.pickupLocation, availableDrivers, drvStatus)
       IN  /\ local' = [local EXCEPT ![t].chosen = chosenDriver]
           /\ pc' = [pc EXCEPT ![t] = IF chosenDriver = nullptr THEN "cancel" ELSE "assign"]
    /\ cout' = <<>>
    /\ notified' = <<>>
    /\ UNCHANGED <<drvStatus, discountAmount, registered, availableDrivers, rides,
                   rideCounter, ongoingRides, completedRides, matchingStrategy,
                   surgeActive, surgeMultiplier, payments>>

\* requestRide, lines 380-385: no driver, the ride is cancelled and returned
StepCancel(t) ==
    /\ pc[t] = "cancel"
    /\ LET id == local[t].ride
           cancelled == UpdateStatus(rides[id], CANCELLED)
       IN  /\ rides' = [rides EXCEPT ![id] = cancelled]
           /\ notified' = NotifyObservers(id, cancelled, CANCELLED)
           /\ cout' = <<Line("No available drivers. Cancelling ride", id, nullptr)>>
    /\ pc' = [pc EXCEPT ![t] = "done"]
    /\ UNCHANGED <<drvStatus, discountAmount, registered, availableDrivers, rideCounter,
                   ongoingRides, completedRides, matchingStrategy, surgeActive,
                   surgeMultiplier, payments, local>>

\* requestRide, lines 388-390: the observers are attached, the driver assigned
StepAssign(t) ==
    /\ pc[t] = "assign"
    /\ LET id == local[t].ride
           matched == MatchedRide(rides[id], local[t].chosen)
       IN  /\ rides' = [rides EXCEPT ![id] = matched]
           /\ notified' = NotifyObservers(id, matched, DRIVER_ASSIGNED)
    /\ cout' = <<>>
    /\ pc' = [pc EXCEPT ![t] = "withdraw"]
    /\ UNCHANGED <<drvStatus, discountAmount, registered, availableDrivers, rideCounter,
                   ongoingRides, completedRides, matchingStrategy, surgeActive,
                   surgeMultiplier, payments, local>>

\* requestRide, lines 393-396: the driver is set ON_TRIP and erased from the pool
StepWithdraw(t) ==
    /\ pc[t] = "withdraw"
    /\ drvStatus' = [drvStatus EXCEPT ![local[t].chosen] = ON_TRIP]
    /\ availableDrivers' = WithdrawPool(availableDrivers, local[t].chosen)
    /\ cout' = <<>>
    /\ notified' = <<>>
    /\ pc' = [pc EXCEPT ![t] = "ongoing"]
    /\ UNCHANGED <<discountAmount, registered, rides, rideCounter, ongoingRides,
                   completedRides, matchingStrategy, surgeActive, surgeMultiplier,
                   payments, local>>

\* requestRide, lines 399-400: the ride is saved in ongoingRides and returned
StepOngoing(t) ==
    /\ pc[t] = "ongoing"
    /\ ongoingRides' = ongoingRides \cup {local[t].ride}
    /\ cout' = <<>>
    /\ notified' = <<>>
    /\ pc' = [pc EXCEPT ![t] = "done"]
    /\ UNCHANGED <<drvStatus, discountAmount, registered, availableDrivers, rides,
                   rideCounter, completedRides, matchingStrategy, surgeActive,
                   surgeMultiplier, payments, local>>

NextConc ==
    \/ \E strategy \in Strategies :
            (\A t \in Threads : pc[t] = "idle") /\ SetMatchingStrategy(strategy)
    \/ \E driver \in Drivers : SetupRegisterDriver(driver)
    \/ \E t \in Threads, rider \in Riders, pickup \in Pickups, drop \in Drops,
          type \in RequestTypes : StepCreate(t, rider, pickup, drop, type)
    \/ \E t \in Threads : StepChoose(t)
    \/ \E t \in Threads : StepCancel(t)
    \/ \E t \in Threads : StepAssign(t)
    \/ \E t \in Threads : StepWithdraw(t)
    \/ \E t \in Threads : StepOngoing(t)

\* Two concurrent requestRide calls
SpecConc == Init /\ [][NextConc]_vars

\* ---------------------------------------------------------------- strategies
\* The sequences over S of length at most n
SeqsUpTo(S, n) == UNION {[1..k -> S] : k \in 0..n}

\* A strategy called on its own: requestRide has created the ride of a request
\* (any category, any pickup) and is about to call chooseDriver of either
\* strategy on a list of candidates of any composition.
InitMatch ==
    /\ drvStatus \in [MatchDrivers -> MatchStatuses]
    /\ discountAmount = [r \in Riders |-> 0]
    /\ registered = {}
    /\ availableDrivers \in SeqsUpTo(MatchDrivers, MaxCandidates)
    /\ \E pickup \in Locations, type \in RequestTypes :
            rides = <<NewRide("r1", pickup, <<6, 8>>, type)>>
    /\ rideCounter = 1
    /\ ongoingRides = {}
    /\ completedRides = <<>>
    /\ matchingStrategy \in Strategies
    /\ surgeActive = FALSE
    /\ surgeMultiplier = 100
    /\ payments = <<>>
    /\ notified = <<>>
    /\ cout = <<Line("requests a ride", 0, nullptr)>>
    /\ pc = [t \in Threads |-> IF t = "t1" THEN "choose" ELSE "done"]
    /\ local = [t \in Threads |-> IF t = "t1" THEN [ride |-> 1, chosen |-> nullptr]
                                               ELSE NoLocal]

NextMatch == \E t \in Threads : StepChoose(t)

\* chooseDriver of either strategy on every candidate list
SpecMatch == InitMatch /\ [][NextMatch]_vars

\* ---------------------------------------------------------------- Ride, called directly
\* Ride::assignDriver called by a holder of the Ride* that requestRide returned
RideAssignDriver(rideId, d) ==
    /\ rideId \in RideIds
    /\ LET ride == AssignDriver(rides[rideId], d)
       IN  /\ rides' = [rides EXCEPT ![rideId] = ride]
           /\ notified' = NotifyObservers(rideId, ride, DRIVER_ASSIGNED)
    /\ cout' = <<>>
    /\ UNCHANGED <<drvStatus, discountAmount, registered, availableDrivers, rideCounter,
                   ongoingRides, completedRides, matchingStrategy, surgeActive,
                   surgeMultiplier, payments, pc, local>>

\* The dispatch operations, and assignDriver on the rides they returned
NextRide ==
    \/ NextDispatch
    \/ \E rideId \in CallIds, d \in Drivers : RideAssignDriver(rideId, d)

SpecRide == Init /\ [][NextRide]_vars

\* ---------------------------------------------------------------- observers that throw
\* A RideObserver whose onRideStatusChanged throws
ThrowingObserver == "ThrowingObserver"

\* The observers a holder of the Ride* attaches after requestRide
ExtraObservers == {ThrowingObserver, RiderNotificationService}

\* length of Ride::observers up to which attachObserver is still called
MaxObservers == 4

\* Ride::attachObserver called by a holder of the Ride* that requestRide returned
RideAttachObserver(rideId, obs) ==
    /\ rideId \in RideIds
    /\ Len(rides[rideId].observers) < MaxObservers
    /\ rides' = [rides EXCEPT ![rideId] = AttachObserver(@, obs)]
    /\ notified' = <<>>
    /\ cout' = <<>>
    /\ UNCHANGED <<drvStatus, discountAmount, registered, availableDrivers, rideCounter,
                   ongoingRides, completedRides, matchingStrategy, surgeActive,
                   surgeMultiplier, payments, pc, local>>

\* The positions of the observers of the ride that throw
ThrowingAt(ride) == {i \in 1..Len(ride.observers) : ride.observers[i] = ThrowingObserver}

\* The loop of Ride::notifyObservers has no try block: the first exception
\* leaves the loop
Throws(ride) == ThrowingAt(ride) # {}

\* The observer calls Ride::notifyObservers makes: all of them, or those up to
\* and including the first that throws
NotifyUntilThrow(id, ride, newStatus) ==
    LET calls == NotifyObservers(id, ride, newStatus)
    IN  IF Throws(ride)
        THEN SubSeq(calls, 1, CHOOSE i \in ThrowingAt(ride) :
                                  \A j \in ThrowingAt(ride) : i <= j)
        ELSE calls

\* DispatchService::updateRideStatus on a ride that may have a throwing
\* observer: the status is assigned, then the exception leaves updateStatus and
\* updateRideStatus (to a caller that catches it)
UpdateRideStatusThrowing(rideId, newStatus) ==
    /\ IF rideId \notin ongoingRides
       THEN /\ cout' = <<NotFound(rideId)>>
            /\ notified' = <<>>
            /\ UNCHANGED rides
       ELSE LET ride == UpdateStatus(rides[rideId], NextStatus(rides[rideId].status, newStatus))
            IN  /\ rides' = [rides EXCEPT ![rideId] = ride]
                /\ notified' = NotifyUntilThrow(rideId, ride, newStatus)
                /\ cout' = <<>>
    /\ UNCHANGED <<drvStatus, discountAmount, registered, availableDrivers, rideCounter, ongoingRides,
                   completedRides, matchingStrategy, surgeActive, surgeMultiplier,
                   payments, pc, local>>

\* DispatchService::completeRide on a ride that may have a throwing observer:
\* the exception leaves completeRide right after the status was assigned, none
\* of the steps 2 to 5 runs
CompleteRideThrowing(rideId, paid) ==
    IF rideId \in ongoingRides /\ Throws(rides[rideId])
    THEN LET ride == UpdateStatus(rides[rideId], COMPLETED)
         IN  /\ rides' = [rides EXCEPT ![rideId] = ride]
             /\ notified' = NotifyUntilThrow(rideId, ride, COMPLETED)
             /\ cout' = <<>>
             /\ UNCHANGED <<drvStatus, discountAmount, registered, availableDrivers,
                            rideCounter, ongoingRides, completedRides, matchingStrategy,
                            surgeActive, surgeMultiplier, payments, pc, local>>
    ELSE CompleteRide(rideId, paid)

\* registerDriver, requestRide, attachObserver on the returned ride, and the
\* status updates and completions that notify the attached observers
NextObserver ==
    \/ \E driver \in Drivers : RegisterDriver(driver)
    \/ \E rider \in Riders, pickup \in Pickups, drop \in Drops, type \in RequestTypes :
            RequestRide(rider, pickup, drop, type)
    \/ \E rideId \in CallIds, obs \in ExtraObservers : RideAttachObserver(rideId, obs)
    \/ \E rideId \in CallIds : \E newStatus \in StatusArgs(rideId) :
            UpdateRideStatusThrowing(rideId, newStatus)
    \/ \E rideId \in CallIds : \E paid \in PaymentAnswers(rideId) :
            CompleteRideThrowing(rideId, paid)

SpecObserver == Init /\ [][NextObserver]_vars

\* ================================================================ claims
\* The drivers of the pool with the category "type"
Candidates(pool, type) == {d \in Range(pool) : vehicleType(d) = type}

\* The transition graph of the ride lifecycle
Edge(from, to) ==
    \/ <<from, to>> \in {<<REQUESTED, DRIVER_ASSIGNED>>,
                         <<DRIVER_ASSIGNED, EN_ROUTE_TO_PICKUP>>,
                         <<EN_ROUTE_TO_PICKUP, IN_PROGRESS>>,
                         <<IN_PROGRESS, COMPLETED>>}
    \/ (to = CANCELLED /\ from \notin {COMPLETED, CANCELLED})

\* The step is a requestRide call: it created the ride rideCounter'
RequestStep == rideCounter' = rideCounter + 1

\* The state is the one a requestRide call that matched a driver returns in
AfterMatch ==
    /\ cout = <<Line("requests a ride", 0, nullptr)>>
    /\ rideCounter \in DOMAIN rides

\* The state is the one an effective completeRide call returns in
AfterComplete ==
    /\ Len(cout) = 4
    /\ cout[4].msg = "Ride completed and archived"

\* C1: the status of a ride changes only along an edge of the lifecycle graph
\* (REQUESTED -> DRIVER_ASSIGNED -> EN_ROUTE_TO_PICKUP -> IN_PROGRESS ->
\* COMPLETED, and CANCELLED from a non-terminal status).
C1_StatusFollowsGraph ==
    [][\A r \in RideIds :
          rides'[r].status # rides[r].status
              => Edge(rides[r].status, rides'[r].status)]_vars

\* C2: COMPLETED and CANCELLED are terminal: a ride in one of them keeps its
\* status in every later step.
C2_TerminalStatusStays ==
    [][\A r \in RideIds :
          rides[r].status \in {COMPLETED, CANCELLED}
              => rides'[r].status = rides[r].status]_vars

\* C3: a registered driver is in availableDrivers iff its status is AVAILABLE;
\* the driver a requestRide has just withdrawn is absent and ON_TRIP; the
\* driver a completeRide has just released is present and AVAILABLE.
C3_AvailableIffStatus ==
    /\ \A d \in registered :
          d \in Range(availableDrivers) <=> drvStatus[d] = AVAILABLE
    /\ AfterMatch /\ rides[rideCounter].driver # nullptr
          => /\ rides[rideCounter].driver \notin Range(availableDrivers)
             /\ drvStatus[rides[rideCounter].driver] = ON_TRIP
    /\ AfterComplete
          => /\ cout[3].driver \in Range(availableDrivers)
             /\ drvStatus[cout[3].driver] = AVAILABLE

\* C3 witness: a registered driver was withdrawn by a requestRide and has been
\* released by completeRide, while another registered driver is offline.
C3_Witness ==
    /\ AfterComplete
    /\ cout[3].driver \in registered
    /\ cout[3].driver \in Range(availableDrivers)
    /\ \E d \in registered : drvStatus[d] = OFFLINE

\* C4: no two rides of the ongoing registry reference the same driver.
C4_OneOngoingRidePerDriver ==
    \A r1, r2 \in ongoingRides : r1 # r2 => rides[r1].driver # rides[r2].driver

\* The drivers registered (none is deregistered under SpecConc) with the
\* category "type"
RegisteredOf(type) == {d \in registered : vehicleType(d) = type}

\* C5: when two concurrent requestRide calls for the same category have both
\* returned and a single driver of that category was available, one ride is
\* DRIVER_ASSIGNED with that driver and the other is CANCELLED with no driver.
C5_OneRequestWins ==
    (/\ \A t \in Threads : pc[t] = "done"
     /\ rides[1].requestedType = rides[2].requestedType
     /\ Cardinality(RegisteredOf(rides[1].requestedType)) = 1)
        => \E won, lost \in RideIds :
              /\ won # lost
              /\ rides[won].driver \in RegisteredOf(rides[won].requestedType)
              /\ rides[won].status = DRIVER_ASSIGNED
              /\ rides[lost].driver = nullptr
              /\ rides[lost].status = CANCELLED


\* C6: the ride a matching requestRide returns is DRIVER_ASSIGNED, its driver
\* has the requested category and is the best of the candidates under the
\* active strategy (no remaining candidate is nearer, resp. better rated), the
\* driver is ON_TRIP and out of availableDrivers, the ride is in ongoingRides
\* and carries exactly the rider-facing then the driver-facing observer.
C6_MatchedRide ==
    AfterMatch /\ rides[rideCounter].driver # nullptr
        => LET id == rideCounter
               ride == rides[id]
               d == ride.driver
               others == Candidates(availableDrivers, ride.requestedType)
           IN  /\ ride.status = DRIVER_ASSIGNED
               /\ d \in Drivers
               /\ vehicleType(d) = ride.requestedType
               /\ matchingStrategy = NearestDriverStrategy
                     => \A c \in others :
                           distanceTo(driverLocation(d), ride.pickupLocation)
                              <= distanceTo(driverLocation(c), ride.pickupLocation)
               /\ matchingStrategy = BestRatedDriverStrategy
                     => \A c \in others : rating(d) >= rating(c)
               /\ drvStatus[d] = ON_TRIP
               /\ d \notin Range(availableDrivers)
               /\ id \in ongoingRides
               /\ ride.observers = <<RiderNotificationService, DriverNotificationService>>

\* C6 witness: a match made under BestRatedDriverStrategy while the nearer
\* driver of the same category stays in the pool.
C6_Witness ==
    /\ AfterMatch
    /\ matchingStrategy = BestRatedDriverStrategy
    /\ rides[rideCounter].driver = "d2"
    /\ "d1" \in Range(availableDrivers)

\* C7: a requestRide made while availableDrivers holds no driver of the
\* requested category returns a CANCELLED ride with no driver, leaves it out
\* of ongoingRides, and changes neither availableDrivers nor a driver's status.
C7_NoMatchCancels ==
    [][RequestStep
          /\ Candidates(availableDrivers, rides'[rideCounter'].requestedType) = {}
          => /\ rides'[rideCounter'].status = CANCELLED
             /\ rides'[rideCounter'].driver = nullptr
             /\ rideCounter' \notin ongoingRides'
             /\ UNCHANGED <<availableDrivers, drvStatus, ongoingRides>>]_vars

\* C7 witness: a request was cancelled for lack of a matching category while
\* a driver of another category was available.
C7_Witness ==
    /\ Len(cout) = 2
    /\ cout[2].msg = "No available drivers. Cancelling ride"
    /\ rides[rideCounter].status = CANCELLED
    /\ rides[rideCounter].driver = nullptr
    /\ rides[rideCounter].requestedType = SUV
    /\ availableDrivers # <<>>

\* The step is an effective completeRide of the ongoing ride r
CompleteStep(r) == r \in ongoingRides /\ r \notin ongoingRides'

\* C8: completeRide of an ongoing ride leaves it COMPLETED with the pipeline's
\* fare, calls the payment collaborator once with that fare and sets paid to
\* its answer, leaves the driver AVAILABLE and exactly once in
\* availableDrivers, removes the ride from ongoingRides and appends it to
\* completedRides.
C8_CompleteRide ==
    [][\A r \in ongoingRides :
          CompleteStep(r)
          => LET fare == FinalFare(rides[r], surgeActive, surgeMultiplier,
                                   discountAmount[rides[r].rider])
                 d == rides[r].driver
             IN  /\ rides'[r].status = COMPLETED
                 /\ rides'[r].fare = fare
                 /\ Len(payments') = Len(payments) + 1
                 /\ payments'[Len(payments')].ride = r
                 /\ payments'[Len(payments')].amount = fare
                 /\ rides'[r].paid = payments'[Len(payments')].ok
                 /\ drvStatus'[d] = AVAILABLE
                 /\ Count(availableDrivers', d) = 1
                 /\ completedRides' = Append(completedRides, r)]_vars

\* Everything but the console: the state a not-found call must leave alone
data == <<drvStatus, discountAmount, registered, availableDrivers, rides, rideCounter,
          ongoingRides, completedRides, matchingStrategy, surgeActive,
          surgeMultiplier, payments>>

\* C9: a call that reports not-found names an identifier that is not in
\* ongoingRides and changes nothing; and no step changes a ride that is out
\* of ongoingRides (its status, fare, paid flag), brings it back into
\* ongoingRides or archives it.
C9_NotFoundChangesNothing ==
    [][/\ \A id \in CallIds :
             cout' = <<NotFound(id)>> /\ cout # cout'
                => id \notin ongoingRides /\ UNCHANGED data
       /\ \A r \in RideIds \ ongoingRides :
             /\ rides'[r] = rides[r]
             /\ r \notin ongoingRides'
             /\ Count(completedRides', r) = Count(completedRides, r)]_vars

\* C9 witness: not-found was reported for a ride that is already archived.
C9_Witness ==
    \E id \in RideIds :
        /\ cout = <<NotFound(id)>>
        /\ Count(completedRides, id) = 1
        /\ rides[id].status = COMPLETED

\* The calls made to the payment collaborator for the ride r
PaymentsOf(r) == {i \in 1..Len(payments) : payments[i].ride = r}

\* C10: a ride whose payment failed is COMPLETED with the fare it was charged,
\* paid = false, out of ongoingRides and in completedRides, and was charged
\* once; in the state its completeRide returns in, its driver is AVAILABLE
\* and in availableDrivers.
C10_PaymentFailureNonFatal ==
    /\ \A i \in 1..Len(payments) :
          ~payments[i].ok
              => LET r == payments[i].ride
                 IN  /\ rides[r].status = COMPLETED
                     /\ rides[r].fare = payments[i].amount
                     /\ rides[r].paid = FALSE
                     /\ r \notin ongoingRides
                     /\ Count(completedRides, r) = 1
                     /\ PaymentsOf(r) = {i}
    /\ AfterComplete /\ cout[2].msg = "Payment failed"
          => /\ cout[3].driver = rides[cout[4].ride].driver
             /\ cout[3].driver \in Range(availableDrivers)
             /\ drvStatus[cout[3].driver] = AVAILABLE

\* C10 witness: a completeRide whose payment failed has just returned.
C10_Witness ==
    /\ AfterComplete
    /\ cout[2].msg = "Payment failed"
    /\ rides[cout[4].ride].status = COMPLETED
    /\ ~rides[cout[4].ride].paid
    /\ rides[cout[4].ride].fare > 0

\* max(0, x)
Max0(x) == IF x < 0 THEN 0 ELSE x

\* C11: the fare completeRide sets is max(0, (BASE_FARE + distance*rate) * m - d),
\* m the surge multiplier active at completion (1 if inactive), d the rider's
\* discount: the base fare alone without surge and discount, never negative,
\* and 250 for base 200, surge 1.5, discount 50.
C11_FareFormula ==
    AfterComplete
        => LET ride == rides[cout[4].ride]
               base == BASE_FARE + ride.distanceKm * farePerKm(ride.driver)
               m == IF surgeActive THEN surgeMultiplier ELSE 100
               d == discountAmount[ride.rider]
           IN  /\ ride.fare = Max0((base * m) \div 100 - d)
               /\ ride.fare >= 0
               /\ ~surgeActive /\ d = 0 => ride.fare = base
               /\ base = 200 /\ m = 150 /\ d = 50 => ride.fare = 250

\* C11 witness: a ride of base fare 200 was completed under surge 1.5 for a
\* rider with a discount of 50, and its fare is 250.
C11_Witness ==
    /\ AfterComplete
    /\ rides[cout[4].ride].distanceKm = 10
    /\ surgeActive /\ surgeMultiplier = 150
    /\ discountAmount[rides[cout[4].ride].rider] = 50
    /\ rides[cout[4].ride].fare = 250

\* The step is the return of the chooseDriver call of the caller t
ChooseReturn(t) == pc[t] = "choose" /\ pc'[t] # "choose"

\* The positions of the list whose driver is AVAILABLE and of the category
Eligible(list, status, type) ==
    {i \in 1..Len(list) : status[list[i]] = AVAILABLE /\ vehicleType(list[i]) = type}

C13_BestRatedChoice ==
    [][\A t \in Threads :
          ChooseReturn(t) /\ matchingStrategy = BestRatedDriverStrategy
          => LET ride == rides[local[t].ride]
                 chosen == local'[t].chosen
                 list == availableDrivers
                 el == Eligible(list, drvStatus, ride.requestedType)
             IN  /\ el # {} => chosen # nullptr
                 /\ chosen # nullptr
                       => \E i \in el :
                             /\ list[i] = chosen
                             /\ vehicleType(chosen) = ride.requestedType
                             /\ \A j \in el : rating(chosen) >= rating(list[j])
                             /\ \A j \in el : j < i => rating(list[j]) < rating(chosen)]_vars

\* C14: no driver appears more than once in availableDrivers (registering a
\* driver that is already registered leaves the pool unchanged).
C14_NoDriverTwice ==
    \A d \in Drivers : Count(availableDrivers, d) <= 1

\* The step is a deregisterDriver(d) call
DeregisterStep(d) == cout' = <<Line("Driver deregistered", 0, d)>>

\* C15: deregisterDriver of a driver that is in availableDrivers removes it and
\* marks it OFFLINE; of a driver that is not in availableDrivers it changes
\* neither the driver's status nor availableDrivers.
C15_DeregisterAbsentNoOp ==
    [][\A d \in Drivers :
          DeregisterStep(d)
          => IF d \in Range(availableDrivers)
             THEN d \notin Range(availableDrivers') /\ drvStatus'[d] = OFFLINE
             ELSE UNCHANGED <<drvStatus, availableDrivers>>]_vars

\* C16: completeRide returns the ride's driver to availableDrivers and sets it
\* AVAILABLE only if the driver is ON_TRIP; a driver in another status (marked
\* OFFLINE by a deregisterDriver during the ride) keeps its status and does
\* not enter availableDrivers.
C16_ReleaseOnlyFromOnTrip ==
    [][\A r \in ongoingRides :
          CompleteStep(r) /\ drvStatus[rides[r].driver] # ON_TRIP
          => /\ drvStatus'[rides[r].driver] = drvStatus[rides[r].driver]
             /\ Count(availableDrivers', rides[r].driver)
                   = Count(availableDrivers, rides[r].driver)]_vars

\* C17: the driver of a ride, once set, never changes, and a driver is set
\* only on a ride that is REQUESTED (assignDriver on a ride that has a driver
\* leaves driver and status unchanged).
C17_DriverSetOnce ==
    [][\A r \in RideIds :
          /\ rides[r].driver # nullptr => rides'[r].driver = rides[r].driver
          /\ rides'[r].driver # rides[r].driver => rides[r].status = REQUESTED]_vars

\* C18: a ride whose status is not COMPLETED has the fare of its construction
\* (0) and is not paid; the fare and the paid flag of a ride change only in
\* the completeRide of that ride, which leaves it COMPLETED.
C18_FareOnlyWhenCompleted ==
    [][/\ \A r \in 1..rideCounter' :
             rides'[r].status # COMPLETED => rides'[r].fare = 0 /\ ~rides'[r].paid
       /\ \A r \in RideIds :
             rides'[r].fare # rides[r].fare \/ rides'[r].paid # rides[r].paid
                => CompleteStep(r) /\ rides'[r].status = COMPLETED]_vars

\* C18 witness: a ride that went through the registry was completed and paid,
\* and carries its fare.
C18_Witness ==
    /\ AfterComplete
    /\ cout[2].msg = "Payment successful"
    /\ rides[cout[4].ride].status = COMPLETED
    /\ rides[cout[4].ride].fare = BASE_FARE + rides[cout[4].ride].distanceKm * 15
    /\ rides[cout[4].ride].paid

ConfigStep == cout' = <<>> /\ notified' = <<>> /\ discountAmount' = discountAmount

\* The fare completeRide would now set on the ride r
Quote(r) ==
    Max0(((BASE_FARE + rides[r].distanceKm * farePerKm(rides[r].driver))
             * (IF surgeActive THEN surgeMultiplier ELSE 100)) \div 100
         - discountAmount[rides[r].rider])

\* The chosen driver is the best of the pool under the strategy
BestUnder(strategy, chosen, pool, type, pickup) ==
    /\ vehicleType(chosen) = type
    /\ strategy = NearestDriverStrategy
          => \A c \in Candidates(pool, type) :
                distanceTo(driverLocation(chosen), pickup)
                   <= distanceTo(driverLocation(c), pickup)
    /\ strategy = BestRatedDriverStrategy
          => \A c \in Candidates(pool, type) : rating(chosen) >= rating(c)

\* The frame of a configuration call, and the strategy a later requestRide uses
ConfigFrame ==
    /\ ConfigStep
          => UNCHANGED <<availableDrivers, drvStatus, ongoingRides, completedRides,
                         rides, rideCounter, payments>>
    /\ RequestStep /\ rides'[rideCounter'].driver # nullptr
          => BestUnder(matchingStrategy, rides'[rideCounter'].driver, availableDrivers,
                       rides'[rideCounter'].requestedType,
                       rides'[rideCounter'].pickupLocation)

\* C20: setMatchingStrategy, activateSurge and deactivateSurge change neither
\* availableDrivers, ongoingRides, completedRides nor a ride; a later
\* requestRide matches with the strategy last set; and the price of a ride
\* already matched (the fare its completeRide will set) is the same after an
\* activateSurge or deactivateSurge call as before it.
C20_ConfigNotRetroactive ==
    [][/\ ConfigFrame
       /\ ConfigStep => \A r \in ongoingRides : Quote(r)' = Quote(r)]_vars

\* C20, amended: the same frame and the same use of the strategy; a ride
\* already completed keeps its fare, and a ride matched but not yet completed
\* is priced by completeRide with the surge setting of the latest
\* activateSurge or deactivateSurge call.
C20_ConfigAppliesAtCompletion ==
    [][/\ ConfigFrame
       /\ \A r \in ongoingRides : CompleteStep(r) => rides'[r].fare = Quote(r)]_vars

\* C20 witness: the surge was activated after a ride had been completed
\* without surge, and the ride still carries its unsurged fare.
C20_Witness ==
    /\ surgeActive
    /\ cout = <<>>
    /\ \E r \in RideIds :
          /\ rides[r].status = COMPLETED
          /\ Count(completedRides, r) = 1
          /\ rides[r].fare = BASE_FARE + rides[r].distanceKm * farePerKm(rides[r].driver)

\* The step changes the status of the ride r (a ride created by the step
\* changes from the REQUESTED of its construction)
StatusChange(r) ==
    IF r \in RideIds THEN rides'[r].status # rides[r].status
                     ELSE rides'[r].status # REQUESTED

\* C21: a step that changes the status of a ride notifies every observer
\* attached to the ride exactly once, in attachment order (the rider-facing
\* before the driver-facing), with the new status, and each observer reads the
\* new status from the ride.
C21_NotifyAfterCommit ==
    [][\A r \in 1..rideCounter' :
          StatusChange(r)
          => /\ Len(notified') = Len(rides'[r].observers)
             /\ \A i \in 1..Len(notified') :
                   /\ notified'[i].obs = rides'[r].observers[i]
                   /\ notified'[i].ride = r
                   /\ notified'[i].newStatus = rides'[r].status
                   /\ notified'[i].seen = rides'[r].status
             /\ rides'[r].observers
                   \in {<<>>, <<RiderNotificationService, DriverNotificationService>>}]_vars

\* C21 witness: updateRideStatus has moved a matched ride to IN_PROGRESS; the
\* rider-facing and then the driver-facing observer were called and read
\* IN_PROGRESS.
C21_Witness ==
    /\ Len(notified) = 2
    /\ notified[1].obs = RiderNotificationService
    /\ notified[2].obs = DriverNotificationService
    /\ \A i \in 1..2 :
          /\ notified[i].newStatus = IN_PROGRESS
          /\ notified[i].seen = IN_PROGRESS
          /\ rides[notified[i].ride].status = IN_PROGRESS

\* C22: when an observer of a ride fails during the notification of a status
\* change, the status stays changed and every observer of the ride, those
\* attached after the failing one included, is notified of it.
C22_ObserverFailureIsolated ==
    [][\A r \in RideIds :
          StatusChange(r)
          => /\ Len(notified') = Len(rides'[r].observers)
             /\ \A i \in 1..Len(notified') :
                   /\ notified'[i].obs = rides'[r].observers[i]
                   /\ notified'[i].newStatus = rides'[r].status]_vars

\* C23: after every step, ongoingRides and completedRides are disjoint, no
\* ride is twice in completedRides, and every archived ride is COMPLETED and
\* has a driver; the status, fare and paid flag of an archived ride are not
\* changed by the step.
C23_ArchiveKept ==
    [][/\ ongoingRides' \cap Range(completedRides') = {}
       /\ \A r \in Range(completedRides') :
             /\ Count(completedRides', r) = 1
             /\ rides'[r].status = COMPLETED
             /\ rides'[r].driver # nullptr
       /\ \A r \in Range(completedRides) :
             /\ rides'[r].status = rides[r].status
             /\ rides'[r].fare = rides[r].fare
             /\ rides'[r].paid = rides[r].paid
             /\ r \in Range(completedRides')]_vars

\* C23 witness: after a ride was archived its driver was deregistered; the
\* ride is out of ongoingRides, once in completedRides, COMPLETED with its
\* driver and its fare.
C23_Witness ==
    /\ Len(cout) = 1
    /\ cout[1].msg = "Driver deregistered"
    /\ \E r \in RideIds :
          /\ completedRides = <<r>>
          /\ r \notin ongoingRides
          /\ rides[r].status = COMPLETED
          /\ rides[r].driver = cout[1].driver
          /\ rides[r].fare > 0

\* C24: every ride of ongoingRides has a driver (one of the driver objects,
\* not nullptr), and so has every ride a completeRide has just priced and
\* released the driver of.
C24_OngoingHasDriver ==
    /\ \A r \in ongoingRides : rides[r].driver \in Drivers
    /\ AfterComplete
          => /\ rides[cout[4].ride].driver \in Drivers
             /\ cout[3].driver = rides[cout[4].ride].driver

\* C24 witness: the driver of an ongoing ride was deregistered on the way to
\* the pickup; the ride is still registered and still has its driver.
C24_Witness ==
    \E r \in ongoingRides :
        /\ rides[r].status = EN_ROUTE_TO_PICKUP
        /\ rides[r].driver \in Drivers
        /\ drvStatus[rides[r].driver] = OFFLINE
        /\ rides[r].driver \notin Range(availableDrivers)

====
